---- MODULE Spec2Model ----
(***************************************************************************)
(* Model of python_app/main.py: a FastAPI service that stores items in a   *)
(* PostgreSQL table `data(id text PRIMARY KEY, value text)` through an     *)
(* asyncpg connection pool.                                                *)
(*                                                                         *)
(*   lifespan            create the pool, run init_db_structure, serve,    *)
(*                       close the pool                                    *)
(*   get_db_connection   per-request dependency: acquire / release         *)
(*   get_item            GET /{item_id}: one SELECT                        *)
(*   set_item            POST /: one INSERT ... ON CONFLICT DO NOTHING     *)
(***************************************************************************)
EXTENDS Integers, Sequences, FiniteSets, TLC

\* ------------------------------------------------------------------ bounds
NumReqs == 3          \* requests the model lets arrive
PoolSize == 2         \* connections of the pool
MaxElapsed == 11      \* seconds after which a wait is no longer counted
MaxRestarts == 1      \* restarts of the process the model follows

\* asyncpg.create_pool(command_timeout=10): seconds a statement may run
command_timeout == 10

Reqs == 1..NumReqs
Conns == 1..PoolSize

\* ------------------------------------------------------------- JSON values
\* A JSON field of a request body: a string, null, or absent.
JStr(s) == <<"str", s>>
JNull == <<"null", "">>
JMissing == <<"missing", "">>

Body(i, v) == [item_id |-> i, value |-> v]
NoBody == Body(JMissing, JMissing)

\* What a request carries: GET /{item_id} or POST / with a body.
GetReq(k) == [kind |-> "GET", item_id |-> k, body |-> NoBody]
PostReq(b) == [kind |-> "POST", item_id |-> "", body |-> b]
NoInput == [kind |-> "NONE", item_id |-> "", body |-> NoBody]

\* The requests clients send in the runs of Spec: a fetch and creates on one
\* key with two values, and one body that is no Item.
Inputs ==
    {GetReq("a"),
     PostReq(Body(JStr("a"), JStr("x"))),
     PostReq(Body(JStr("a"), JStr("y"))),
     PostReq(Body(JStr("a"), JNull))}

\* The requests clients send in the runs of SpecKeys: fetches and creates on
\* two keys.
KeyInputs ==
    {GetReq("a"),
     GetReq("b"),
     PostReq(Body(JStr("a"), JStr("x"))),
     PostReq(Body(JStr("b"), JStr("x")))}

\* The requests clients send in the runs of SpecBodies: every shape of a
\* POST body field (absent, null, empty string, non-empty string).
BodyInputs ==
    {GetReq("a"),
     PostReq(Body(JStr("a"), JStr("x"))),
     PostReq(Body(JStr(""), JStr("x"))),
     PostReq(Body(JStr("a"), JStr(""))),
     PostReq(Body(JMissing, JStr("x"))),
     PostReq(Body(JNull, JStr("x"))),
     PostReq(Body(JStr("a"), JMissing)),
     PostReq(Body(JStr("a"), JNull))}

\* The requests clients send in the runs of SpecTimed.
TimedInputs ==
    {GetReq("a"),
     PostReq(Body(JStr("a"), JStr("x")))}

\* The requests clients send in the runs of SpecCancel.
CancelInputs ==
    {GetReq("a"),
     PostReq(Body(JStr("a"), JStr("x"))),
     PostReq(Body(JStr("a"), JNull))}

\* The requests clients send in the runs of SpecRestart.
RestartInputs ==
    {GetReq("a"),
     PostReq(Body(JStr("a"), JStr("x")))}

\* The requests clients send in the runs of SpecLive.
LiveInputs ==
    {GetReq("a"),
     PostReq(Body(JStr("a"), JStr("x"))),
     PostReq(Body(JStr("a"), JNull))}

\* ---------------------------------------------------------------- Item
\* class Item(BaseModel): item_id: str, value: str.  Both fields are
\* required and must be strings; the model puts no constraint on length.
Item(body) ==
    /\ body.item_id[1] = "str"
    /\ body.value[1] = "str"

\* ------------------------------------------------------------ the table
\* The table is a set of rows <<id, value>>; the primary key is enforced
\* by the statements below, not by the representation.
RowsOf(t, id) == {row \in t : row[1] = id}

\* asyncpg status string of an INSERT that added n rows: "INSERT 0 n".
InsertStatus(n) ==
    <<"I", "N", "S", "E", "R", "T", " ", "0", " ">>
    \o <<IF n = 0 THEN "0" ELSE "1">>

\* str.endswith
EndsWith(s, suffix) ==
    /\ Len(s) >= Len(suffix)
    /\ SubSeq(s, Len(s) - Len(suffix) + 1, Len(s)) = suffix

\* INSERT ... ON CONFLICT (id) DO UPDATE SET value = $2: the row is replaced
\* and counted.
Upsert(t, id, v) ==
    [table |-> (t \ RowsOf(t, id)) \cup {<<id, v>>}, status |-> InsertStatus(1)]

\* INSERT into a table without the primary key: the row is always added.
InsertNoKey(t, id, v) ==
    [table |-> t \cup {<<id, v>>}, status |-> InsertStatus(1)]

\* An INSERT whose conflict test looks at any row instead of the row of id.
InsertConflictAnyRow(t, id, v) ==
    IF t = {}
    THEN [table |-> t \cup {<<id, v>>}, status |-> InsertStatus(1)]
    ELSE [table |-> t, status |-> InsertStatus(0)]

\* INSERT INTO data (id, value) VALUES ($1, $2) ON CONFLICT (id) DO NOTHING
\* Returns the new table and the status string.
InsertOnConflictDoNothing(t, id, v) ==
    IF RowsOf(t, id) = {}
    THEN [table |-> t \cup {<<id, v>>}, status |-> InsertStatus(1)]
    ELSE [table |-> t, status |-> InsertStatus(0)]

\* SELECT value from data, without the WHERE clause: any row matches.
FetchAnyRow(t, id) ==
    IF t = {}
    THEN <<>>
    ELSE LET row == CHOOSE row \in t : TRUE
         IN  << <<"value", row[2]>> >>

\* SELECT value from data WHERE id = $1, fetchrow: the first matching row as
\* a sequence of (column, value) pairs, or <<>> (None) when none matches.
FetchRow(t, id) ==
    IF RowsOf(t, id) = {}
    THEN <<>>
    ELSE LET row == CHOOSE row \in RowsOf(t, id) : TRUE
         IN  << <<"value", row[2]>> >>

\* ------------------------------------------------------------- responses
Resp(s, b) == [status |-> s, body |-> b]
NoResp == Resp(0, <<>>)

\* get_item returning the column's name, next(res.items())[0].
GetItemResponseColumnName(res) ==
    IF res = <<>>
    THEN Resp(404, <<"detail", "Item not found">>)
    ELSE Resp(200, <<"value", Head(res)[1]>>)

\* get_item after the SELECT returned.
GetItemResponse(res) ==
    IF res = <<>>
    THEN Resp(404, <<"detail", "Item not found">>)
    ELSE Resp(200, <<"value", Head(res)[2]>>)

\* set_item with the test inverted: res.endswith("0 1") answers 200.
SetItemResponseInverted(res) ==
    IF EndsWith(res, <<"0", " ", "1">>)
    THEN Resp(200, <<>>)
    ELSE Resp(201, <<>>)

\* set_item without the test of the status: always 201.
SetItemResponseAlwaysCreated(res) == Resp(201, <<>>)

\* set_item answering 200 whatever the status.
SetItemResponseAlwaysExists(res) == Resp(200, <<>>)

\* set_item after the INSERT returned.
SetItemResponse(res) ==
    IF EndsWith(res, <<"0", " ", "0">>)
    THEN Resp(200, <<>>)
    ELSE Resp(201, <<>>)

\* ----------------------------------------------------------------- state
NoConn == 0

VARIABLES
    life,         \* position of lifespan
    pool,         \* "none" | "open" | "closed"
    free,         \* connections in the pool's free set
    initConn,     \* connection held by init_db_structure
    tableExists,  \* the table `data` exists in the database
    table,        \* rows of `data`
    pc,           \* per request: "idle" | "acquire" | "exec" | "release" | "done"
    input,        \* per request: what the client sent
    conn,         \* per request: the connection it holds
    response,     \* per request: the response
    elapsed,      \* per request: seconds spent in its current wait
    workload,     \* the requests clients send in this run
    restarts,     \* how often the process was started again
    epoch,        \* per request: the process run in which it arrived
    stmts         \* per request: statements it sent to the backend

vars == <<life, pool, free, initConn, tableExists, table,
          pc, input, conn, response, elapsed, workload, restarts, epoch, stmts>>

dbVars == <<tableExists, table>>
reqVars == <<pc, input, conn, response, elapsed, workload, restarts, epoch, stmts>>

InitWith(w) ==
    /\ workload = w
    /\ life = "start"
    /\ pool = "none"
    /\ free = {}
    /\ initConn = NoConn
    /\ tableExists = FALSE
    /\ table = {}
    /\ pc = [r \in Reqs |-> "idle"]
    /\ input = [r \in Reqs |-> NoInput]
    /\ conn = [r \in Reqs |-> NoConn]
    /\ response = [r \in Reqs |-> NoResp]
    /\ elapsed = [r \in Reqs |-> 0]
    /\ restarts = 0
    /\ epoch = [r \in Reqs |-> 0]
    /\ stmts = [r \in Reqs |-> 0]

Init == InitWith(Inputs)
InitKeys == InitWith(KeyInputs)
InitBodies == InitWith(BodyInputs)
InitTimed == InitWith(TimedInputs)
InitCancel == InitWith(CancelInputs)
InitRestart == InitWith(RestartInputs)
InitLive == InitWith(LiveInputs)

\* Requests that arrived and are not answered and released yet.
InFlight == {r \in Reqs : pc[r] \in {"acquire", "exec", "release"}}

\* -------------------------------------------------------------- lifespan
\* asyncpg.create_pool(command_timeout=10) succeeds.
CreatePool ==
    /\ life = "start"
    /\ life' = "init_db"
    /\ pool' = "open"
    /\ free' = Conns
    /\ UNCHANGED <<initConn, dbVars, reqVars>>

\* asyncpg.create_pool raises: the backend cannot be reached.
CreatePoolFails ==
    /\ life = "start"
    /\ life' = "failed"
    /\ UNCHANGED <<pool, free, initConn, dbVars, reqVars>>

\* init_db_structure: async with pool.acquire() as db_conn
InitDbAcquire ==
    /\ life = "init_db"
    /\ initConn = NoConn
    /\ \E c \in free :
        /\ initConn' = c
        /\ free' = free \ {c}
    /\ UNCHANGED <<life, pool, dbVars, reqVars>>

\* DROP TABLE IF EXISTS data; CREATE TABLE data (...): the rows are lost.
DropAndCreateTable(exists, t) == {}

\* CREATE TABLE IF NOT EXISTS data (...): the rows of the table afterwards.
CreateTableIfNotExists(exists, t) == IF exists THEN t ELSE {}

\* CREATE TABLE IF NOT EXISTS data (...) succeeds; the connection is released
\* and lifespan reaches its yield.
InitDbExecute ==
    /\ life = "init_db"
    /\ initConn # NoConn
    /\ tableExists' = TRUE
    /\ table' = CreateTableIfNotExists(tableExists, table)
    /\ free' = free \cup {initConn}
    /\ initConn' = NoConn
    /\ life' = "serving"
    /\ UNCHANGED <<pool, reqVars>>

\* The schema statement raises: the connection is released by the async with,
\* the exception leaves lifespan before its yield.
InitDbFails ==
    /\ life = "init_db"
    /\ initConn # NoConn
    /\ free' = free \cup {initConn}
    /\ initConn' = NoConn
    /\ life' = "failed"
    /\ UNCHANGED <<pool, dbVars, reqVars>>

\* The server stops: it accepts no new request, lets the requests in flight
\* finish, and lifespan resumes after its yield.
Stop ==
    /\ life = "serving"
    /\ InFlight = {}
    /\ life' = "closing"
    /\ UNCHANGED <<pool, free, initConn, dbVars, reqVars>>

\* pool.close() waits for every connection to be released, then closes them.
PoolClose ==
    /\ life = "closing"
    /\ pool = "open"
    /\ free = Conns
    /\ pool' = "closed"
    /\ free' = {}
    /\ life' = "stopped"
    /\ UNCHANGED <<initConn, dbVars, reqVars>>

\* -------------------------------------------------------------- requests
\* lifespan yielded before init_db_structure ran.
ServingBeforeInitDb == life \in {"init_db", "serving"}

\* lifespan is suspended at its yield: the server accepts requests.
Serving == life = "serving"

\* A request arrives while the service is serving.
Arrive(r) ==
    /\ Serving
    /\ pc[r] = "idle"
    /\ \A q \in Reqs : q < r => pc[q] # "idle"
    /\ \E i \in workload : input' = [input EXCEPT ![r] = i]
    /\ pc' = [pc EXCEPT ![r] = "acquire"]
    /\ epoch' = [epoch EXCEPT ![r] = restarts]
    /\ UNCHANGED <<life, pool, free, initConn, dbVars, conn, response, elapsed,
                   workload, restarts, stmts>>

\* The free set after an acquire that hands out c and keeps it free.
AcquireKeepsFree(c) == free

\* The free set after pool.acquire() handed out c.
PoolAcquire(c) == free \ {c}

\* get_db_connection: pool.acquire() returns a free connection.  The body of
\* a POST is validated once the dependency is solved; a body that is no Item
\* is answered 422 without calling set_item.
Acquire(r) ==
    /\ pc[r] = "acquire"
    /\ pool = "open"
    /\ \E c \in free :
        /\ free' = PoolAcquire(c)
        /\ conn' = [conn EXCEPT ![r] = c]
    /\ IF input[r].kind = "POST" /\ ~Item(input[r].body)
       THEN /\ response' = [response EXCEPT ![r] = Resp(422, <<>>)]
            /\ pc' = [pc EXCEPT ![r] = "release"]
       ELSE /\ response' = response
            /\ pc' = [pc EXCEPT ![r] = "exec"]
    /\ elapsed' = [elapsed EXCEPT ![r] = 0]
    /\ UNCHANGED <<life, pool, initConn, dbVars, input, workload, restarts, epoch, stmts>>

\* A handler that sends its statement again after it returned.
AfterStatementAgain == "exec"

\* Where a handler goes when its one awaited statement has returned or
\* raised: out of the handler, to the exit of get_db_connection.
AfterStatement == "release"

\* get_item: the SELECT returns.
get_item(r) ==
    /\ pc[r] = "exec"
    /\ input[r].kind = "GET"
    /\ response' = [response EXCEPT
                      ![r] = GetItemResponse(FetchRow(table, input[r].item_id))]
    /\ pc' = [pc EXCEPT ![r] = AfterStatement]
    /\ elapsed' = [elapsed EXCEPT ![r] = 0]
    /\ stmts' = [stmts EXCEPT ![r] = stmts[r] + 1]
    /\ UNCHANGED <<life, pool, free, initConn, dbVars, input, conn, workload, restarts, epoch>>

\* set_item: the INSERT returns.
set_item(r) ==
    /\ pc[r] = "exec"
    /\ input[r].kind = "POST"
    /\ LET item == input[r].body
           out == InsertOnConflictDoNothing(table, item.item_id[2], item.value[2])
       IN  /\ table' = out.table
           /\ response' = [response EXCEPT ![r] = SetItemResponse(out.status)]
    /\ pc' = [pc EXCEPT ![r] = AfterStatement]
    /\ elapsed' = [elapsed EXCEPT ![r] = 0]
    /\ stmts' = [stmts EXCEPT ![r] = stmts[r] + 1]
    /\ UNCHANGED <<life, pool, free, initConn, tableExists, input, conn, workload, restarts, epoch>>

\* A handler that catches the exception of its statement and answers 404.
SwallowedError == Resp(404, <<"detail", "Item not found">>)

\* The handlers catch nothing: an exception of the statement leaves the
\* handler and the request is answered 500 Internal Server Error.
UnhandledError == Resp(500, <<>>)

\* The statement raises (backend failure, command timeout): the exception
\* propagates out of the handler and the request is answered 500.
StatementFails(r) ==
    /\ pc[r] = "exec"
    /\ response' = [response EXCEPT ![r] = UnhandledError]
    /\ pc' = [pc EXCEPT ![r] = AfterStatement]
    /\ elapsed' = [elapsed EXCEPT ![r] = 0]
    /\ stmts' = [stmts EXCEPT ![r] = stmts[r] + 1]
    /\ UNCHANGED <<life, pool, free, initConn, dbVars, input, conn, workload, restarts, epoch>>

\* The free set after a request that only releases on success returns:
\* acquire()/release() without the async with.
ReleaseOnSuccessOnly(r) ==
    IF response[r].status >= 400 THEN free ELSE free \cup {conn[r]}

\* The free set after the async with of get_db_connection exits.
PoolRelease(r) == free \cup {conn[r]}

\* get_db_connection: the async with block exits on every path out of the
\* request (response or exception), the connection goes back.
Release(r) ==
    /\ pc[r] = "release"
    /\ free' = PoolRelease(r)
    /\ conn' = [conn EXCEPT ![r] = NoConn]
    /\ pc' = [pc EXCEPT ![r] = "done"]
    /\ UNCHANGED <<life, pool, initConn, dbVars, input, response, elapsed, workload, restarts, epoch, stmts>>

Next ==
    \/ CreatePool
    \/ CreatePoolFails
    \/ InitDbAcquire
    \/ InitDbExecute
    \/ InitDbFails
    \/ Stop
    \/ PoolClose
    \/ \E r \in Reqs : Arrive(r)
    \/ \E r \in Reqs : Acquire(r)
    \/ \E r \in Reqs : get_item(r)
    \/ \E r \in Reqs : set_item(r)
    \/ \E r \in Reqs : StatementFails(r)
    \/ \E r \in Reqs : Release(r)

\* ------------------------------------------------------------------ time
\* One second passes.  A request waits in pool.acquire() only while no
\* connection is free; the call is made without a timeout, so that wait has
\* no deadline (the model stops counting at MaxElapsed).  A statement never
\* runs longer than command_timeout.  Nothing bounds the time between the
\* return of the statement and the release of the connection.
Tick ==
    /\ InFlight # {}
    /\ \A r \in Reqs : pc[r] = "acquire" => free = {}
    /\ \A r \in Reqs : pc[r] = "exec" => elapsed[r] < command_timeout
    /\ elapsed' = [r \in Reqs |->
                     IF pc[r] \in {"acquire", "exec"} /\ elapsed[r] < MaxElapsed
                     THEN elapsed[r] + 1
                     ELSE elapsed[r]]
    /\ UNCHANGED <<life, pool, free, initConn, dbVars,
                   pc, input, conn, response, workload, restarts, epoch, stmts>>

\* The statement has run for command_timeout seconds: asyncpg cancels it and
\* raises TimeoutError, the request is answered 500.
CommandTimeout(r) ==
    /\ elapsed[r] = command_timeout
    /\ StatementFails(r)

NextTimed ==
    \/ Next
    \/ Tick
    \/ \E r \in Reqs : CommandTimeout(r)

\* ---------------------------------------------------------- cancellation
\* What is recorded for a request whose client went away: no response is
\* delivered (logged as 499, client closed request).
ClientGone == Resp(499, <<>>)

\* A cancellation that ends the request without running the exit of
\* get_db_connection.
CancelledSkipsRelease == "done"

\* Where a cancelled request goes: CancelledError is raised in the handler
\* and unwinds through the async with of get_db_connection.
CancelledUnwinds == "release"

\* The client disconnects while the statement runs: the request is cancelled.
\* The backend may or may not have applied the INSERT already.
CancelInStatement(r) ==
    /\ pc[r] = "exec"
    /\ response' = [response EXCEPT ![r] = ClientGone]
    /\ pc' = [pc EXCEPT ![r] = CancelledUnwinds]
    /\ stmts' = [stmts EXCEPT ![r] = stmts[r] + 1]
    /\ \/ table' = table
       \/ /\ input[r].kind = "POST"
          /\ table' = InsertOnConflictDoNothing(
                          table, input[r].body.item_id[2],
                          input[r].body.value[2]).table
    /\ UNCHANGED <<life, pool, free, initConn, tableExists, input, conn,
                   elapsed, workload, restarts, epoch>>

\* The client disconnects after the handler returned (or validation failed),
\* before the connection is released.
CancelAfterHandler(r) ==
    /\ pc[r] = "release"
    /\ response[r] # ClientGone
    /\ response' = [response EXCEPT ![r] = ClientGone]
    /\ pc' = [pc EXCEPT ![r] = CancelledUnwinds]
    /\ UNCHANGED <<life, pool, free, initConn, dbVars, input, conn,
                   elapsed, workload, restarts, epoch, stmts>>

NextCancel ==
    \/ Next
    \/ \E r \in Reqs : CancelInStatement(r)
    \/ \E r \in Reqs : CancelAfterHandler(r)

\* ---------------------------------------------------------------- restart
\* The process ended (stopped, or startup failed) and is started again: a
\* new process has no pool; the database keeps its table.
Restart ==
    /\ life \in {"stopped", "failed"}
    /\ restarts < MaxRestarts
    /\ restarts' = restarts + 1
    /\ life' = "start"
    /\ pool' = "none"
    /\ free' = {}
    /\ UNCHANGED <<initConn, dbVars, pc, input, conn, response, elapsed,
                   workload, epoch, stmts>>

NextRestart ==
    \/ Next
    \/ Restart

\* --------------------------------------------------------------- fairness
\* The event loop runs every task that can run, and every statement sent
\* to the backend returns or raises.
Fairness ==
    \A r \in Reqs :
        /\ WF_vars(Acquire(r))
        /\ WF_vars(get_item(r) \/ set_item(r) \/ StatementFails(r))
        /\ WF_vars(Release(r))

Spec == Init /\ [][Next]_vars
SpecCancel == InitCancel /\ [][NextCancel]_vars
SpecRestart == InitRestart /\ [][NextRestart]_vars
SpecLive == InitLive /\ [][Next]_vars /\ Fairness
SpecKeys == InitKeys /\ [][Next]_vars
SpecBodies == InitBodies /\ [][Next]_vars
SpecTimed == InitTimed /\ [][NextTimed]_vars

\* ================================================================ claims
\* Helpers of the claims.
IsCreate(r) == input[r].kind = "POST" /\ Item(input[r].body)
IsFetch(r) == input[r].kind = "GET"
KeyOf(r) == IF IsFetch(r) THEN input[r].item_id ELSE input[r].body.item_id[2]
ValueOf(r) == input[r].body.value[2]
Creators(k) == {r \in Reqs : IsCreate(r) /\ KeyOf(r) = k}
Answered(r) == pc[r] \in {"release", "done"}
StatusOf(r) == response[r].status
Created == Resp(201, <<>>)
AlreadyExists == Resp(200, <<>>)
NotFound == Resp(404, <<"detail", "Item not found">>)
Found(v) == Resp(200, <<"value", v>>)

\* The step in which the INSERT of s returns to set_item.
SetItemReturns(s) ==
    /\ pc[s] = "exec"
    /\ IsCreate(s)
    /\ pc'[s] = "release"
    /\ response'[s].status # 500

\* The step in which the SELECT of g returns to get_item.
GetItemReturns(g) ==
    /\ pc[g] = "exec"
    /\ IsFetch(g)
    /\ pc'[g] = "release"
    /\ response'[g].status # 500

\* C1: among the set_item requests that carry the same item_id and whose
\* INSERT returned, exactly one is answered Created (201) and all the others
\* AlreadyExists (200), in every interleaving of their acquire, INSERT and
\* release steps.
C1_OneCreatedPerKey ==
    \A c \in Reqs :
        IsCreate(c) =>
            LET same == {r \in Creators(KeyOf(c)) : Answered(r) /\ StatusOf(r) # 500}
            IN  same # {} =>
                    /\ Cardinality({r \in same : response[r] = Created}) = 1
                    /\ \A r \in same : response[r] \in {Created, AlreadyExists}

\* All requests create the same item_id, all are answered, at least two of
\* them still hold their connections: one Created, the others AlreadyExists.
C1_Witness ==
    /\ \A r \in Reqs : IsCreate(r) /\ KeyOf(r) = "a" /\ Answered(r)
    /\ Cardinality({r \in Reqs : pc[r] = "release"}) >= 2
    /\ Cardinality({r \in Reqs : response[r] = Created}) = 1
    /\ Cardinality({r \in Reqs : response[r] = AlreadyExists}) = NumReqs - 1

\* C2: a set_item whose INSERT finds no row for its item_id is answered
\* Created and stores its value; a set_item whose INSERT returns after an
\* earlier set_item with the same item_id (same or different value) was
\* answered Created and finished is answered AlreadyExists, and the stored
\* value is still the value of the first call.
C2_FirstWriteWins ==
    [][\A s \in Reqs :
          SetItemReturns(s) =>
              /\ RowsOf(table, KeyOf(s)) = {} =>
                    /\ response'[s] = Created
                    /\ table' = table \cup {<<KeyOf(s), ValueOf(s)>>}
              /\ \A f \in Creators(KeyOf(s)) :
                    (pc[f] = "done" /\ response[f] = Created) =>
                        /\ response'[s] = AlreadyExists
                        /\ RowsOf(table', KeyOf(s)) = {<<KeyOf(s), ValueOf(f)>>}
      ]_vars

\* Two finished set_item calls with one item_id and different values: the
\* first answered Created, the second AlreadyExists, the first value is stored.
C2_Witness ==
    \E f, s \in Reqs :
        /\ IsCreate(f) /\ IsCreate(s)
        /\ pc[f] = "done" /\ pc[s] = "done"
        /\ KeyOf(f) = KeyOf(s)
        /\ ValueOf(f) # ValueOf(s)
        /\ response[f] = Created
        /\ response[s] = AlreadyExists
        /\ RowsOf(table, KeyOf(f)) = {<<KeyOf(f), ValueOf(f)>>}

\* C3: a set_item whose item_id has no stored row is answered Created, and a
\* get_item of that item_id whose SELECT returns after that response answers
\* 200 with exactly the value of that set_item.
C3_CreatedThenFetched ==
    [][/\ \A s \in Reqs :
             (SetItemReturns(s) /\ RowsOf(table, KeyOf(s)) = {}) =>
                 response'[s] = Created
       /\ \A g \in Reqs :
             GetItemReturns(g) =>
                 \A s \in Creators(KeyOf(g)) :
                     (Answered(s) /\ response[s] = Created) =>
                         response'[g] = Found(ValueOf(s))
      ]_vars

\* A get_item answered 200 with the value of the set_item answered Created,
\* while a set_item with another value for the item_id was answered too.
C3_Witness ==
    \E g, s, o \in Reqs :
        /\ IsFetch(g) /\ IsCreate(s) /\ IsCreate(o)
        /\ pc[g] = "done" /\ pc[s] = "done" /\ pc[o] = "done"
        /\ KeyOf(g) = KeyOf(s) /\ KeyOf(o) = KeyOf(s)
        /\ ValueOf(o) # ValueOf(s)
        /\ response[s] = Created
        /\ response[o] = AlreadyExists
        /\ response[g] = Found(ValueOf(s))

\* Connections lent to a request or to init_db_structure.
Leased == ({conn[r] : r \in Reqs} \cup {initConn}) \ {NoConn}
Holders == {r \in Reqs : pc[r] \in {"exec", "release"}}

\* C4: every connection acquired for a request is released, whatever the
\* outcome of the request (success, NotFound, ValidationError, failure of
\* the statement): a finished request holds no connection, the free and the
\* leased connections partition the pool, and once no request is between
\* its acquire and its release the free set has its full size.
C4_NoConnectionLeak ==
    /\ \A r \in Reqs : pc[r] \in {"idle", "acquire", "done"} => conn[r] = NoConn
    /\ \A r \in Holders : conn[r] \in Conns
    /\ pool = "open" =>
          /\ free \cap Leased = {}
          /\ free \cup Leased = Conns
          /\ (Holders = {} /\ initConn = NoConn) => free = Conns

\* All requests are finished, with a Created, a ValidationError and a failed
\* statement among them, and the pool is back to its full size.
C4_Witness ==
    /\ \A r \in Reqs : pc[r] = "done"
    /\ {201, 422, 500} \subseteq {StatusOf(r) : r \in Reqs}
    /\ pool = "open"
    /\ free = Conns

\* C5: a get_item of an item_id for which no set_item was answered Created,
\* and whose SELECT returned, is answered NotFound (404), whichever other
\* item_ids have been created.
C5_NeverCreatedNotFound ==
    \A g \in Reqs :
        (/\ IsFetch(g)
         /\ Answered(g)
         /\ StatusOf(g) # 500
         /\ \A s \in Creators(KeyOf(g)) : response[s] # Created)
        => response[g] = NotFound

\* A get_item answered 404 after another item_id was created.
C5_Witness ==
    \E g, s \in Reqs :
        /\ IsFetch(g) /\ IsCreate(s)
        /\ KeyOf(s) # KeyOf(g)
        /\ pc[s] = "done" /\ response[s] = Created
        /\ pc[g] = "done" /\ response[g] = NotFound
        /\ table # {}

\* C6: the table holds at most one row per item_id, and no step removes or
\* changes a row.
C6_AtMostOneRowAppendOnly ==
    /\ [](\A row1, row2 \in table : row1[1] = row2[1] => row1 = row2)
    /\ [][table \subseteq table']_vars

\* A second set_item for a stored item_id, with another value, was answered
\* and the row still holds the first value.
C6_Witness ==
    \E f, s \in Reqs :
        /\ IsCreate(f) /\ IsCreate(s)
        /\ KeyOf(f) = KeyOf(s)
        /\ ValueOf(f) # ValueOf(s)
        /\ response[f] = Created
        /\ pc[s] = "done" /\ response[s] = AlreadyExists
        /\ table = {<<KeyOf(f), ValueOf(f)>>}

\* C7: no request waits in acquire() for more than the configured timeout,
\* and no statement runs for more than command_timeout.
C7_BoundedWaits ==
    \A r \in Reqs :
        /\ pc[r] = "acquire" => elapsed[r] <= command_timeout
        /\ pc[r] = "exec" => elapsed[r] <= command_timeout

\* What the specification asks of a POST body: both fields present, strings
\* and non-empty.
WellFormed(body) ==
    /\ body.item_id[1] = "str" /\ body.item_id[2] # ""
    /\ body.value[1] = "str" /\ body.value[2] # ""

\* C8: a POST whose body has a missing, non-string or empty item_id or value
\* never reaches the INSERT, is answered 422, and stores no row.
C8_MalformedBodyRejected ==
    /\ \A r \in Reqs :
          (input[r].kind = "POST" /\ ~WellFormed(input[r].body)) =>
              /\ pc[r] # "exec"
              /\ Answered(r) => StatusOf(r) = 422
    /\ \A row \in table : row[1] # "" /\ row[2] # ""

\* C9: a request is handled only while the pool exists and the schema
\* statement has completed; a startup that failed stays failed.
C9_NoTrafficBeforeSchema ==
    /\ [](\A r \in Reqs :
             pc[r] # "idle" =>
                 /\ life \in {"serving", "closing", "stopped"}
                 /\ pool # "none"
                 /\ tableExists)
    /\ [](life = "serving" => (pool = "open" /\ tableExists /\ initConn = NoConn))
    /\ [][life = "failed" => life' = "failed"]_vars

\* A handler holds a connection and the table exists.
C9_Witness ==
    \E r \in Reqs : pc[r] = "exec" /\ conn[r] \in Conns /\ tableExists

\* C10: when the process has stopped, a pool that was created is closed (also
\* when the schema statement failed), and a pool that was never created is
\* left alone.
C10_PoolClosedAtStop ==
    life \in {"stopped", "failed"} => pool \in {"none", "closed"}

\* C11: a request cancelled after it acquired its connection still releases
\* it: while it unwinds it holds a connection that is not free, once it is
\* finished it holds none, and the bookkeeping of the pool stays consistent
\* (leased + free = pool size, no connection both leased and free).
C11_CancelledStillReleased ==
    /\ \A r \in Reqs :
          response[r] = ClientGone =>
              /\ pc[r] \in {"release", "done"}
              /\ pc[r] = "release" => (conn[r] \in Conns /\ conn[r] \notin free)
              /\ pc[r] = "done" => conn[r] = NoConn
    /\ pool = "open" =>
          /\ Cardinality(free) + Cardinality(Leased) = PoolSize
          /\ free \cap Leased = {}
          /\ Cardinality(Leased) =
                Cardinality(Holders) + (IF initConn = NoConn THEN 0 ELSE 1)

\* A request cancelled while its statement ran has finished, and with every
\* request finished the pool has all its connections free.
C11_Witness ==
    /\ \E r \in Reqs :
          /\ response[r] = ClientGone
          /\ stmts[r] = 1
    /\ \A r \in Reqs : pc[r] = "done"
    /\ pool = "open"
    /\ free = Conns

\* C12: between the stop of the service and its next start (a restart that
\* runs CREATE TABLE IF NOT EXISTS again) the table keeps exactly its rows:
\* an item created in an earlier run is fetched with its original value in a
\* later run, and creating it again answers AlreadyExists and changes nothing.
C12_TableSurvivesRestart ==
    [][/\ life # "serving" => table' = table
       /\ \A g \in Reqs :
             GetItemReturns(g) =>
                 \A s \in Creators(KeyOf(g)) :
                     (response[s] = Created /\ epoch[s] < epoch[g]) =>
                         response'[g] = Found(ValueOf(s))
       /\ \A c \in Reqs :
             SetItemReturns(c) =>
                 \A s \in Creators(KeyOf(c)) :
                     (response[s] = Created /\ epoch[s] < epoch[c]) =>
                         /\ response'[c] = AlreadyExists
                         /\ table' = table
      ]_vars

\* An item created before the restart was fetched with its value and created
\* again after it.
C12_Witness ==
    \E s, g, c \in Reqs :
        /\ IsCreate(s) /\ IsFetch(g) /\ IsCreate(c)
        /\ KeyOf(g) = KeyOf(s) /\ KeyOf(c) = KeyOf(s)
        /\ epoch[s] = 0 /\ epoch[g] = 1 /\ epoch[c] = 1
        /\ restarts = 1
        /\ response[s] = Created
        /\ pc[g] = "done" /\ response[g] = Found(ValueOf(s))
        /\ pc[c] = "done" /\ response[c] = AlreadyExists
        /\ table = {<<KeyOf(s), ValueOf(s)>>}

\* C13: when its INSERT returns, set_item answers Created exactly when the
\* statement added one row, the row of this request, and AlreadyExists
\* exactly when the statement left the table unchanged; there is no third
\* answer.
C13_AnswerFollowsRowCount ==
    [][\A s \in Reqs :
          SetItemReturns(s) =>
              /\ response'[s] \in {Created, AlreadyExists}
              /\ response'[s] = Created <=>
                    /\ table \subseteq table'
                    /\ table' \ table = {<<KeyOf(s), ValueOf(s)>>}
              /\ response'[s] = AlreadyExists <=> table' = table
      ]_vars

\* One INSERT added the row and was answered Created, another just returned
\* without a row and is answered AlreadyExists.
C13_Witness ==
    \E s, o \in Reqs :
        /\ IsCreate(s) /\ IsCreate(o)
        /\ response[s] = Created /\ stmts[s] = 1
        /\ pc[o] = "release" /\ response[o] = AlreadyExists /\ stmts[o] = 1
        /\ Cardinality(table) = 1

\* C14: a statement that raises while the service is serving ends its
\* request with a server error (never 200, 201 or 404) and changes neither
\* the table nor the state of the service; a response once given never
\* changes; and while the service is serving the next request is accepted
\* and a waiting request gets a free connection, whatever failed before.
C14_FailureSurfacesAsServerError ==
    /\ [][\A r \in Reqs :
             StatementFails(r) =>
                 /\ response'[r].status >= 500
                 /\ response'[r].status \notin {200, 201, 404}
                 /\ life' = "serving"
                 /\ pool' = "open"
                 /\ table' = table
         ]_vars
    /\ [][\A r \in Reqs : response[r] # NoResp => response'[r] = response[r]]_vars
    /\ [](life = "serving" =>
             \A r \in Reqs :
                 /\ (pc[r] = "idle" /\ \A q \in Reqs : q < r => pc[q] # "idle")
                       => ENABLED Arrive(r)
                 /\ (pc[r] = "acquire" /\ free # {}) => ENABLED Acquire(r))

\* A request ended with 500 and released its connection, another was served,
\* and the service still accepts the next one.
C14_Witness ==
    \E r, q \in Reqs :
        /\ pc[r] = "done" /\ StatusOf(r) = 500
        /\ pc[q] = "done" /\ StatusOf(q) \in {200, 201}
        /\ life = "serving"
        /\ \E n \in Reqs : pc[n] = "idle"

\* C15: a request sends at most one statement over its whole life: none
\* before it holds a connection or when its body is rejected, exactly one
\* once it is answered otherwise; and every request between its acquire and
\* its release accounts for exactly one connection missing from the free set.
C15_OneConnectionOneStatement ==
    /\ \A r \in Reqs :
          /\ stmts[r] <= 1
          /\ pc[r] \in {"idle", "acquire", "exec"} => stmts[r] = 0
          /\ Answered(r) => (stmts[r] = 1 <=> StatusOf(r) # 422)
    /\ pool = "open" =>
          Cardinality(Conns \ free) =
              Cardinality(Holders) + (IF initConn = NoConn THEN 0 ELSE 1)

\* A fetch and a create finished with one statement each, a rejected body
\* with none.
C15_Witness ==
    \E g, s, v \in Reqs :
        /\ pc[g] = "done" /\ IsFetch(g) /\ stmts[g] = 1
        /\ pc[s] = "done" /\ IsCreate(s) /\ stmts[s] = 1
        /\ pc[v] = "done" /\ StatusOf(v) = 422 /\ stmts[v] = 0

\* C16: the step in which a SELECT returns to get_item (200 or 404) and the
\* step in which an INSERT returns to a set_item answered AlreadyExists leave
\* the table unchanged.
C16_ReadsLeaveTableUnchanged ==
    [][\A r \in Reqs :
          /\ GetItemReturns(r) => table' = table
          /\ (SetItemReturns(r) /\ response'[r] = AlreadyExists) => table' = table
      ]_vars

\* A fetch answered 404, then the item was created, and a second create was
\* answered AlreadyExists: the table holds the one row.
C16_Witness ==
    \E g, f, o \in Reqs :
        /\ IsFetch(g) /\ pc[g] = "done" /\ response[g] = NotFound
        /\ IsCreate(f) /\ response[f] = Created
        /\ IsCreate(o) /\ pc[o] = "done" /\ response[o] = AlreadyExists
        /\ table = {<<KeyOf(f), ValueOf(f)>>}

\* C17: no connection is lent to two requests at once, a lent connection is
\* not in the free set nor held by init_db_structure, and the number of
\* leased connections never exceeds the size of the pool.
C17_NoConnectionLentTwice ==
    /\ \A r1, r2 \in Holders : r1 # r2 => conn[r1] # conn[r2]
    /\ \A r \in Holders :
          /\ conn[r] \in Conns
          /\ conn[r] \notin free
          /\ conn[r] # initConn
    /\ Cardinality(Holders) + (IF initConn = NoConn THEN 0 ELSE 1) <= PoolSize

\* Every connection is lent, to requests at different steps, and one more
\* request waits for a connection.
C17_Witness ==
    /\ Cardinality(Holders) = PoolSize
    /\ free = {}
    /\ \E r \in Reqs : pc[r] = "acquire"
    /\ \E r1, r2 \in Holders : pc[r1] = "exec" /\ pc[r2] = "release"

\* No other request that arrived carries the item_id of r.
Alone(r) ==
    /\ pc[r] # "idle"
    /\ \A q \in Reqs : (q # r /\ pc[q] # "idle") => KeyOf(q) # KeyOf(r)

\* C18: a request whose item_id no other request carries gets the response
\* it would get alone, in every interleaving with the requests on other
\* item_ids: a fetch NotFound, a create Created with its row stored; and the
\* table holds exactly the rows of the creates answered Created.
C18_DistinctKeysIndependent ==
    /\ \A r \in Reqs :
          (Alone(r) /\ Answered(r) /\ StatusOf(r) # 500) =>
              /\ IsFetch(r) =>
                    /\ response[r] = NotFound
                    /\ RowsOf(table, KeyOf(r)) = {}
              /\ IsCreate(r) =>
                    /\ response[r] = Created
                    /\ RowsOf(table, KeyOf(r)) = {<<KeyOf(r), ValueOf(r)>>}
    /\ table = {<<KeyOf(s), ValueOf(s)>> :
                   s \in {c \in Reqs : IsCreate(c) /\ response[c] = Created}}

\* Two creates on different item_ids hold their connections at the same
\* time, both are answered Created and both rows are stored.
C18_Witness ==
    \E s1, s2 \in Reqs :
        /\ IsCreate(s1) /\ IsCreate(s2)
        /\ KeyOf(s1) # KeyOf(s2)
        /\ pc[s1] = "release" /\ pc[s2] = "release"
        /\ response[s1] = Created /\ response[s2] = Created
        /\ Cardinality(table) = 2

\* C19: every request that arrived is eventually answered and finished
\* without a connection, with all connections that are not lent back in the
\* free set, also when more requests are in flight than the pool has
\* connections.
C19_EveryRequestFinishes ==
    \A r \in Reqs :
        (pc[r] = "acquire") ~>
            (/\ pc[r] = "done"
             /\ response[r] # NoResp
             /\ conn[r] = NoConn
             /\ free \cup Leased = Conns)

\* The pool is exhausted: every connection is held by a request whose
\* statement runs, and another request waits in acquire.
C19_Witness ==
    /\ free = {}
    /\ \E r \in Reqs :
          /\ pc[r] = "acquire"
          /\ \A q \in Reqs : q # r => (pc[q] = "exec" /\ conn[q] \in Conns)

====
